---- MODULE Spec2Model ----
(***************************************************************************)
(* Model of the laboratory pipelines of lab_7_llm/main.py (summarization)  *)
(* and lab_8_sft/main.py (classification): dataset import, preprocessing,  *)
(* batched inference, metric evaluation and the fine-tuning stub.          *)
(*                                                                         *)
(* A pandas DataFrame is a record [type |-> "DataFrame", rows |-> s] where *)
(* s is a sequence of rows [index |-> label, cols |-> [column |-> value]]. *)
(* Library calls (tokenizer, model, metric) are uninterpreted: a           *)
(* prediction is a term that names the text it was generated from.         *)
(***************************************************************************)
EXTENDS Integers, Sequences, FiniteSets, TLC

VARIABLES
    lab,                \* which laboratory's main.py runs: 7 or 8
    pc,                 \* position of the calling thread
    downloaded,         \* local `dataset` of RawDataImporter.obtain
    raw_data,           \* RawDataImporter._raw_data / RawDataPreprocessor._raw_data
    raised,             \* exception that left the current call, or None
    data,               \* RawDataPreprocessor._data
    dataset,            \* TaskDataset._data of LLMPipeline._dataset
    batch_size,         \* LLMPipeline._batch_size
    loader_pos,         \* next sampler index of the DataLoader iterator
    batch,              \* local `batch` of infer_dataset
    batch_predictions,  \* value returned by _infer_batch, not yet appended
    predictions,        \* local `predictions` of infer_dataset
    result_df,          \* value returned by infer_dataset
    data_file,          \* table stored in the file at TaskEvaluator.data_path
    metrics,            \* TaskEvaluator._metrics
    metric_i,           \* position of `for metric in self._metrics`
    evaluation,         \* local `evaluation` of TaskEvaluator.run
    compute_call,       \* arguments and result of the latest metric compute call
    sft_args,           \* arguments given to SFTPipeline.__init__
    sft_obj,            \* instance attributes of the SFTPipeline object
    sft_model,          \* state of the pre-trained model the arguments name
    sft_dataset,        \* state of the dataset the arguments name
    sft_result,         \* value returned by the last SFTPipeline.run
    sft_calls           \* number of SFTPipeline.run calls made

pipe_vars == <<lab, pc, downloaded, raw_data, raised, data, dataset, batch_size,
               loader_pos, batch, batch_predictions, predictions, result_df>>
eval_vars == <<data_file, metrics, metric_i, evaluation, compute_call>>
sft_vars == <<sft_args, sft_obj, sft_model, sft_dataset, sft_result, sft_calls>>
vars == <<pipe_vars, eval_vars, sft_vars>>

----------------------------------------------------------------------------
(* Bounds of the model *)

MaxRows == 3
MaxBatch == 3
MaxFileRows == 2
MaxMetrics == 2
MaxRuns == 3

----------------------------------------------------------------------------
(* Values *)

None == "None"
NA == "<NA>"

Range(s) == {s[i] : i \in 1..Len(s)}

SeqsUpTo(S, n) == UNION {[1..k -> S] : k \in 0..n}

\* Column values of the downloaded test splits.
Rows7 == [article : {NA, "a1", "a2"}, abstract : {NA, "t"}]
Rows8 == [premise : {"p1", "p2", "p3"}, hypothesis : {NA, "h"}, label : {NA, "y"}]

HFDataset(rows) == [type |-> "Dataset", rows |-> rows]

Datasets7 == {HFDataset(r) : r \in SeqsUpTo(Rows7, MaxRows)}
Datasets8 == {HFDataset(r) : r \in SeqsUpTo(Rows8, MaxRows)}

----------------------------------------------------------------------------
(* pandas operations used by the glue code *)

\* pd.DataFrame(dataset): one row per record, labelled by a RangeIndex.
PdDataFrame(obj) ==
    [type |-> "DataFrame",
     rows |-> [i \in 1..Len(obj.rows) |-> [index |-> i - 1, cols |-> obj.rows[i]]]]

IsInstanceDataFrame(obj) == obj.type = "DataFrame"

RenamedColumn(mapping, c) == IF c \in DOMAIN mapping THEN mapping[c] ELSE c

\* DataFrame.rename(columns=mapping): a new frame, the receiver is not changed.
Rename(df, mapping) ==
    [df EXCEPT !.rows =
        [i \in 1..Len(df.rows) |->
            [df.rows[i] EXCEPT !.cols =
                [d \in {RenamedColumn(mapping, c) : c \in DOMAIN df.rows[i].cols} |->
                    df.rows[i].cols[CHOOSE c \in DOMAIN df.rows[i].cols :
                                        RenamedColumn(mapping, c) = d]]]]]

RECURSIVE FilterRows(_, _, _)
FilterRows(rows, keep, i) ==
    IF i > Len(rows) THEN <<>>
    ELSE (IF keep[i] THEN <<rows[i]>> ELSE <<>>) \o FilterRows(rows, keep, i + 1)

IsMissing(v) == v = NA

\* dropna(subset=subset, how="all"): drops a row only when all of subset is missing.
DropnaSubsetHowAll(df, subset) ==
    [df EXCEPT !.rows =
        FilterRows(df.rows,
                   [i \in 1..Len(df.rows) |->
                        \E c \in subset : ~IsMissing(df.rows[i].cols[c])],
                   1)]

\* DataFrame.dropna(subset=subset): drops a row when any column of subset is missing.
DropnaSubset(df, subset) ==
    [df EXCEPT !.rows =
        FilterRows(df.rows,
                   [i \in 1..Len(df.rows) |->
                        \A c \in subset : ~IsMissing(df.rows[i].cols[c])],
                   1)]

\* DataFrame.dropna(): drops a row when any of its columns is missing.
Dropna(df) ==
    [df EXCEPT !.rows =
        FilterRows(df.rows,
                   [i \in 1..Len(df.rows) |->
                        \A c \in DOMAIN df.rows[i].cols : ~IsMissing(df.rows[i].cols[c])],
                   1)]

\* drop_duplicates(keep="last"): the last row of each group survives.
DropDuplicatesKeepLast(df) ==
    [df EXCEPT !.rows =
        FilterRows(df.rows,
                   [i \in 1..Len(df.rows) |->
                        \A j \in (i + 1)..Len(df.rows) : df.rows[j].cols # df.rows[i].cols],
                   1)]

\* DataFrame.drop_duplicates(): keep="first" over all columns.
DropDuplicates(df) ==
    [df EXCEPT !.rows =
        FilterRows(df.rows,
                   [i \in 1..Len(df.rows) |->
                        \A j \in 1..(i - 1) : df.rows[j].cols # df.rows[i].cols],
                   1)]

\* DataFrame.reset_index(drop=True): labels become 0..k-1.
ResetIndex(df) ==
    [df EXCEPT !.rows = [i \in 1..Len(df.rows) |-> [df.rows[i] EXCEPT !.index = i - 1]]]

\* DataFrame.loc[label, column]
Loc(df, label, column) ==
    (CHOOSE r \in Range(df.rows) : r.index = label).cols[column]

\* DataFrame.iloc[position][column]
Iloc(df, position, column) == df.rows[position + 1].cols[column]

\* result_df[column] = values, for values as long as the frame.
AddColumn(df, column, values) ==
    [df EXCEPT !.rows =
        [i \in 1..Len(df.rows) |->
            [df.rows[i] EXCEPT !.cols =
                [c \in DOMAIN df.rows[i].cols \cup {column} |->
                    IF c = column THEN values[i] ELSE df.rows[i].cols[c]]]]]

\* df[[columns]]
SelectColumns(df, columns) ==
    [df EXCEPT !.rows =
        [i \in 1..Len(df.rows) |->
            [df.rows[i] EXCEPT !.cols = [c \in columns |-> df.rows[i].cols[c]]]]]

\* str(value) of a cell: a string is returned as it is, a missing value as "nan".
PyStr(v) == IF IsMissing(v) THEN "nan" ELSE v

----------------------------------------------------------------------------
(* ColumnNames of core_utils, as the code uses them *)

SOURCE == "source"
TARGET == "target"
PREDICTION == "predictions"
PREMISE == "premise"
HYPOTHESIS == "hypothesis"

----------------------------------------------------------------------------
(* RawDataImporter.obtain *)

\* The body of obtain after load_dataset returned ds: the new _raw_data and the
\* exception raised, if any.
Obtain(ds) ==
    LET frame == PdDataFrame(ds)
    IN  [raw_data |-> frame,
         raised |-> IF ~IsInstanceDataFrame(frame) THEN "TypeError" ELSE None]

ObtainStep(ds) ==
    /\ downloaded' = ds
    /\ raw_data' = Obtain(ds).raw_data
    /\ raised' = Obtain(ds).raised
    /\ pc' = IF Obtain(ds).raised # None THEN "raised" ELSE "transform"
    /\ UNCHANGED <<lab, data, dataset, batch_size, loader_pos, batch,
                   batch_predictions, predictions, result_df, eval_vars, sft_vars>>

obtain7 ==
    /\ pc = "obtain"
    /\ lab = 7
    /\ \E ds \in Datasets7 : ObtainStep(ds)

obtain8 ==
    /\ pc = "obtain"
    /\ lab = 8
    /\ \E ds \in Datasets8 : ObtainStep(ds)

----------------------------------------------------------------------------
(* RawDataPreprocessor.transform *)

Transform7(raw) ==
    ResetIndex(DropnaSubset(Rename(raw, [article |-> SOURCE, abstract |-> TARGET]),
                            {SOURCE, TARGET}))

Transform8(raw) ==
    ResetIndex(DropDuplicates(Dropna(Rename(raw, [label |-> TARGET]))))

transform7 ==
    /\ pc = "transform"
    /\ lab = 7
    /\ data' = Transform7(raw_data)
    /\ pc' = "pipeline"
    /\ UNCHANGED <<lab, downloaded, raw_data, raised, dataset, batch_size, loader_pos,
                   batch, batch_predictions, predictions, result_df, eval_vars, sft_vars>>

transform8 ==
    /\ pc = "transform"
    /\ lab = 8
    /\ data' = Transform8(raw_data)
    /\ pc' = "pipeline"
    /\ UNCHANGED <<lab, downloaded, raw_data, raised, dataset, batch_size, loader_pos,
                   batch, batch_predictions, predictions, result_df, eval_vars, sft_vars>>

----------------------------------------------------------------------------
(* TaskDataset and LLMPipeline *)

\* TaskDataset.__init__ keeps the frame; LLMPipeline.__init__ keeps the dataset
\* and the batch size.
llm_pipeline_init ==
    /\ pc = "pipeline"
    /\ \E b \in 1..MaxBatch : batch_size' = b
    /\ dataset' = data
    /\ pc' = "infer_dataset"
    /\ UNCHANGED <<lab, downloaded, raw_data, raised, data, loader_pos, batch,
                   batch_predictions, predictions, result_df, eval_vars, sft_vars>>

\* TaskDataset.__len__
DatasetLen(ds) == Len(ds.rows)

\* TaskDataset.__getitem__ of lab 7: a 1-tuple with the source text.
GetItem7(ds, index) == <<PyStr(Loc(ds, index, SOURCE))>>

\* TaskDataset.__getitem__ of lab 8: the pair (premise, hypothesis).
GetItem8(ds, index) == <<Iloc(ds, index, PREMISE), Iloc(ds, index, HYPOTHESIS)>>

\* default_collate of a list of equally long tuples of strings: transposition.
DefaultCollate(items) ==
    [j \in 1..Len(items[1]) |-> [i \in 1..Len(items) |-> items[i][j]]]

Min(a, b) == IF a < b THEN a ELSE b

\* Sampler indices of the batch that starts at pos (drop_last is False).
BatchIndices(pos, n, b) == [k \in 1..(Min(pos + b, n) - pos) |-> pos + k - 1]

\* next() of the DataLoader iterator at sampler position pos.
LoaderBatch(ds, pos, b, l) ==
    LET idx == BatchIndices(pos, DatasetLen(ds), b)
    IN  DefaultCollate([k \in 1..Len(idx) |->
                            IF l = 7 THEN GetItem7(ds, idx[k]) ELSE GetItem8(ds, idx[k])])

\* tokenizer, generate, batch_decode and strip of lab 7 for one text.
Summary(text) == [summary_of |-> text]

\* tokenizer, model, argmax and str of lab 8 for one pair.
ClassOf(premise, hypothesis) == [class_of |-> <<premise, hypothesis>>]

infer_batch7(sample_batch) ==
    LET inputs == sample_batch[1]
    IN  [i \in 1..Len(inputs) |-> Summary(inputs[i])]

infer_batch8(sample_batch) ==
    IF Len(sample_batch) = 1
    THEN <<ClassOf(sample_batch[1][1], sample_batch[1][2])>>
    ELSE [i \in 1..Len(sample_batch[1]) |->
              ClassOf(sample_batch[1][i], sample_batch[2][i])]

\* A loader that hands out the next batch while predictions are still pending.
AtLoopHeadOrPending == pc \in {"loop", "extend"}

\* The calling thread is at `for batch in data_loader`, about to ask for a batch.
AtLoopHead == pc = "loop"

infer_dataset_begin ==
    /\ pc = "infer_dataset"
    /\ loader_pos' = 0
    /\ predictions' = <<>>
    /\ pc' = "loop"
    /\ UNCHANGED <<lab, downloaded, raw_data, raised, data, dataset, batch_size, batch,
                   batch_predictions, result_df, eval_vars, sft_vars>>

loader_next ==
    /\ AtLoopHead
    /\ IF loader_pos < DatasetLen(dataset)
       THEN /\ batch' = LoaderBatch(dataset, loader_pos, batch_size, lab)
            /\ loader_pos' = Min(loader_pos + batch_size, DatasetLen(dataset))
            /\ pc' = "infer"
       ELSE /\ pc' = "assemble"
            /\ UNCHANGED <<batch, loader_pos>>
    /\ UNCHANGED <<lab, downloaded, raw_data, raised, data, dataset, batch_size,
                   batch_predictions, predictions, result_df, eval_vars, sft_vars>>

infer_batch ==
    /\ pc = "infer"
    /\ batch_predictions' = IF lab = 7 THEN infer_batch7(batch) ELSE infer_batch8(batch)
    /\ pc' = "extend"
    /\ UNCHANGED <<lab, downloaded, raw_data, raised, data, dataset, batch_size,
                   loader_pos, batch, predictions, result_df, eval_vars, sft_vars>>

\* The batch's predictions put in front of the list instead of behind it.
ExtendInFront(list, more) == more \o list

\* predictions.extend(batch_predictions)
Extend(list, more) == list \o more

extend ==
    /\ pc = "extend"
    /\ predictions' = Extend(predictions, batch_predictions)
    /\ batch_predictions' = None
    /\ pc' = "loop"
    /\ UNCHANGED <<lab, downloaded, raw_data, raised, data, dataset, batch_size,
                   loader_pos, batch, result_df, eval_vars, sft_vars>>

\* The frame infer_dataset returns once the loop is over.
ResultFrame(ds, preds, l) ==
    IF l = 7
    THEN AddColumn(ds, PREDICTION, preds)
    ELSE SelectColumns(AddColumn(ds, PREDICTION, preds), {TARGET, PREDICTION})

infer_dataset_end ==
    /\ pc = "assemble"
    /\ IF Len(predictions) = DatasetLen(dataset)
       THEN /\ result_df' = ResultFrame(dataset, predictions, lab)
            /\ pc' = "done"
            /\ UNCHANGED raised
       ELSE /\ raised' = "ValueError"
            /\ pc' = "raised"
            /\ UNCHANGED result_df
    /\ UNCHANGED <<lab, downloaded, raw_data, data, dataset, batch_size, loader_pos,
                   batch, batch_predictions, predictions, eval_vars, sft_vars>>

----------------------------------------------------------------------------
(* Specification of the two pipelines *)

EvalIdle ==
    /\ data_file = None
    /\ metrics = <<>>
    /\ metric_i = 0
    /\ evaluation = None
    /\ compute_call = None

SftIdle ==
    /\ sft_args = None
    /\ sft_obj = None
    /\ sft_model = None
    /\ sft_dataset = None
    /\ sft_result = None
    /\ sft_calls = 0

Init ==
    /\ lab \in {7, 8}
    /\ pc = "obtain"
    /\ downloaded = None
    /\ raw_data = None
    /\ raised = None
    /\ data = None
    /\ dataset = None
    /\ batch_size = 0
    /\ loader_pos = 0
    /\ batch = None
    /\ batch_predictions = None
    /\ predictions = None
    /\ result_df = None
    /\ EvalIdle
    /\ SftIdle

Next ==
    \/ obtain7
    \/ obtain8
    \/ transform7
    \/ transform8
    \/ llm_pipeline_init
    \/ infer_dataset_begin
    \/ loader_next
    \/ infer_batch
    \/ extend
    \/ infer_dataset_end

Spec == Init /\ [][Next]_vars

PipeIdle ==
    /\ downloaded = None
    /\ raw_data = None
    /\ raised = None
    /\ data = None
    /\ dataset = None
    /\ batch_size = 0
    /\ loader_pos = 0
    /\ batch = None
    /\ batch_predictions = None
    /\ predictions = None
    /\ result_df = None

----------------------------------------------------------------------------
(* TaskEvaluator of lab 7 *)

\* Metrics the evaluator may be asked for (Metrics.value).
MetricValues == {"rouge", "bleu"}

\* Results a metric's compute may give: a dictionary from some component names
\* to scores.
ScoreKeys == {"rouge1", "rougeL", "bleu"}
ScoreValues == {1, 2}
ScoreDicts == UNION {[K -> ScoreValues] : K \in SUBSET ScoreKeys}

\* Tables a predictions file may hold.
FileRows == [target : {"t1", "t2"}, predictions : {"s1", "s2"}]
Files == {[type |-> "csv", rows |-> r] : r \in SeqsUpTo(FileRows, MaxFileRows)}

\* pd.read_csv(path): the table of the file, labelled by a RangeIndex.
ReadCsv(file) == PdDataFrame(file)

\* data[column]
Column(df, column) == [i \in 1..Len(df.rows) |-> df.rows[i].cols[column]]

\* The component of the scores stored for a metric: rouge1 instead of rougeL.
ScoreKeyRouge1(metric) == IF metric = "rouge" THEN "rouge1" ELSE metric

\* The component of the scores stored for a metric.
ScoreKey(metric) == IF metric = "rouge" THEN "rougeL" ELSE metric

EmptyDict == [k \in {} |-> None]

\* dict[key] = value
SetItem(dict, key, value) ==
    [k \in DOMAIN dict \cup {key} |-> IF k = key THEN value ELSE dict[k]]

\* TaskEvaluator.__init__ keeps the path and the metrics.
task_evaluator_init ==
    /\ pc = "evaluator"
    /\ \E m \in SeqsUpTo(MetricValues, MaxMetrics) : metrics' = m
    /\ pc' = "run"
    /\ UNCHANGED <<lab, downloaded, raw_data, raised, data, dataset, batch_size,
                   loader_pos, batch, batch_predictions, predictions, result_df,
                   data_file, metric_i, evaluation, compute_call, sft_vars>>

\* run up to the loop: the file is read and the result starts empty.
run_begin ==
    /\ pc = "run"
    /\ evaluation' = EmptyDict
    /\ metric_i' = 1
    /\ pc' = "metric_loop"
    /\ UNCHANGED <<lab, downloaded, raw_data, raised, data, dataset, batch_size,
                   loader_pos, batch, batch_predictions, predictions, result_df,
                   data_file, metrics, compute_call, sft_vars>>

\* One iteration of `for metric in self._metrics`; scores is what compute gave.
run_metric ==
    /\ pc = "metric_loop"
    /\ metric_i <= Len(metrics)
    /\ \E scores \in ScoreDicts :
        LET metric == metrics[metric_i]
            frame == ReadCsv(data_file)
        IN  /\ compute_call' = [metric |-> metric,
                                predictions |-> Column(frame, PREDICTION),
                                references |-> Column(frame, TARGET),
                                scores |-> scores]
            /\ IF ScoreKey(metric) \in DOMAIN scores
               THEN /\ evaluation' = SetItem(evaluation, metric, scores[ScoreKey(metric)])
                    /\ metric_i' = metric_i + 1
                    /\ UNCHANGED <<pc, raised>>
               ELSE /\ raised' = "KeyError"
                    /\ pc' = "raised"
                    /\ UNCHANGED <<evaluation, metric_i>>
    /\ UNCHANGED <<lab, downloaded, raw_data, data, dataset, batch_size, loader_pos,
                   batch, batch_predictions, predictions, result_df, data_file,
                   metrics, sft_vars>>

\* The loop is over: run returns evaluation.
run_return ==
    /\ pc = "metric_loop"
    /\ metric_i > Len(metrics)
    /\ pc' = "returned"
    /\ UNCHANGED <<lab, downloaded, raw_data, raised, data, dataset, batch_size,
                   loader_pos, batch, batch_predictions, predictions, result_df,
                   eval_vars, sft_vars>>

InitEval ==
    /\ lab = 7
    /\ pc = "evaluator"
    /\ PipeIdle
    /\ data_file \in Files
    /\ metrics = <<>>
    /\ metric_i = 0
    /\ evaluation = None
    /\ compute_call = None
    /\ SftIdle

NextEval ==
    \/ task_evaluator_init
    \/ run_begin
    \/ run_metric
    \/ run_return

SpecEval == InitEval /\ [][NextEval]_vars

----------------------------------------------------------------------------
(* SFTPipeline of lab 8 *)

ModelNames == {"model_a", "model_b"}
SFTParamSets == {"params_a", "params_b"}
TokenizedDatasets == SeqsUpTo({"x1", "x2"}, MaxRows)

\* A constructor that keeps its arguments, as the abstract pipeline's would.
SFTPipeline_init_storing(model_name, ds, sft_params) ==
    [_model_name |-> model_name, _dataset |-> ds, _params |-> sft_params]

\* SFTPipeline.__init__: the body is a docstring; the object gets no attribute.
SFTPipeline_init(model_name, ds, sft_params) == EmptyDict

\* SFTPipeline.run: the body is a docstring; nothing changes and None is returned.
SFTPipeline_run(obj, model, ds) ==
    [result |-> None, obj |-> obj, model |-> model, dataset |-> ds]

sft_pipeline_init ==
    /\ pc = "sft"
    /\ \E name \in ModelNames, params \in SFTParamSets :
        /\ sft_args' = [model_name |-> name, dataset |-> sft_dataset,
                        sft_params |-> params]
        /\ sft_obj' = SFTPipeline_init(name, sft_dataset, params)
    /\ pc' = "sft_ready"
    /\ UNCHANGED <<lab, downloaded, raw_data, raised, data, dataset, batch_size,
                   loader_pos, batch, batch_predictions, predictions, result_df,
                   eval_vars, sft_model, sft_dataset, sft_result, sft_calls>>

sft_run ==
    /\ pc = "sft_ready"
    /\ sft_calls < MaxRuns
    /\ LET r == SFTPipeline_run(sft_obj, sft_model, sft_dataset)
       IN  /\ sft_result' = r.result
           /\ sft_obj' = r.obj
           /\ sft_model' = r.model
           /\ sft_dataset' = r.dataset
    /\ sft_calls' = sft_calls + 1
    /\ UNCHANGED <<pipe_vars, eval_vars, sft_args>>

InitSFT ==
    /\ lab = 8
    /\ pc = "sft"
    /\ PipeIdle
    /\ EvalIdle
    /\ sft_args = None
    /\ sft_obj = None
    /\ sft_model = "pretrained"
    /\ sft_dataset \in TokenizedDatasets
    /\ sft_result = "not called"
    /\ sft_calls = 0

NextSFT ==
    \/ sft_pipeline_init
    \/ sft_run

SpecSFT == InitSFT /\ [][NextSFT]_vars

----------------------------------------------------------------------------
(* Properties of the pipelines *)

StrictlyIncreasing(f) == \A i, j \in DOMAIN f : i < j => f[i] < f[j]

\* The row positions of `from` that `to` keeps, in order: to.rows[i] comes from
\* from.rows[f[i]], f is strictly increasing and its range is exactly kept.
KeepsExactly(from, to, kept, Same(_, _)) ==
    \E f \in [1..Len(to.rows) -> 1..Len(from.rows)] :
        /\ StrictlyIncreasing(f)
        /\ {f[i] : i \in 1..Len(to.rows)} = kept
        /\ \A i \in 1..Len(to.rows) : Same(from.rows[f[i]].cols, to.rows[i].cols)

IndexIsRange(df) == \A i \in 1..Len(df.rows) : df.rows[i].index = i - 1

Renamed7(rawcols, cols) ==
    /\ DOMAIN cols = {SOURCE, TARGET}
    /\ cols[SOURCE] = rawcols["article"]
    /\ cols[TARGET] = rawcols["abstract"]

\* C1: lab 7 infer_dataset returns the dataset's table with one added prediction
\* column, one prediction per row for every dataset length and batch size, and
\* the prediction of row i is the one generated from the source text of row i.
C1_PredictionPerRow ==
    (pc = "done" /\ lab = 7) =>
        /\ Len(result_df.rows) = Len(dataset.rows)
        /\ Len(predictions) = Len(dataset.rows)
        /\ \A i \in 1..Len(dataset.rows) :
            /\ result_df.rows[i].index = dataset.rows[i].index
            /\ DOMAIN result_df.rows[i].cols = DOMAIN dataset.rows[i].cols \cup {PREDICTION}
            /\ \A c \in DOMAIN dataset.rows[i].cols :
                    result_df.rows[i].cols[c] = dataset.rows[i].cols[c]
            /\ result_df.rows[i].cols[PREDICTION] = Summary(dataset.rows[i].cols[SOURCE])

\* Three rows with different first and last source texts inferred in batches of
\* two: the last batch is shorter.
C1_Witness ==
    /\ pc = "done"
    /\ lab = 7
    /\ batch_size = 2
    /\ Len(result_df.rows) = 3
    /\ result_df.rows[1].cols[SOURCE] # result_df.rows[3].cols[SOURCE]

\* C2: lab 7 transform renames article/abstract to source/target, removes exactly
\* the rows whose source or target is missing, keeps the others in their order,
\* renumbers the index 0..k-1, and leaves the raw data unchanged.
C2_Transform7 ==
    (pc = "pipeline" /\ lab = 7) =>
        /\ raw_data = PdDataFrame(downloaded)
        /\ IndexIsRange(data)
        /\ KeepsExactly(raw_data, data,
                        {j \in 1..Len(raw_data.rows) :
                            /\ raw_data.rows[j].cols["article"] # NA
                            /\ raw_data.rows[j].cols["abstract"] # NA},
                        Renamed7)

\* A raw table whose first row is dropped and whose next two rows survive.
C2_Witness ==
    /\ pc = "pipeline"
    /\ lab = 7
    /\ Len(raw_data.rows) = 3
    /\ raw_data.rows[1].cols["abstract"] = NA
    /\ Len(data.rows) = 2

Renamed8(rawcols, cols) ==
    /\ DOMAIN cols = {PREMISE, HYPOTHESIS, TARGET}
    /\ cols[PREMISE] = rawcols["premise"]
    /\ cols[HYPOTHESIS] = rawcols["hypothesis"]
    /\ cols[TARGET] = rawcols["label"]

Complete(cols) == \A c \in DOMAIN cols : cols[c] # NA

\* C3: lab 8 transform renames label to target; the result has no missing value
\* and no two identical rows; the first row of each group of identical rows is
\* kept, in order, with the index renumbered 0..k-1; dropping again removes
\* nothing.
C3_Transform8 ==
    (pc = "pipeline" /\ lab = 8) =>
        /\ \A i \in 1..Len(data.rows) : Complete(data.rows[i].cols)
        /\ \A i, j \in 1..Len(data.rows) :
                i # j => data.rows[i].cols # data.rows[j].cols
        /\ IndexIsRange(data)
        /\ KeepsExactly(raw_data, data,
                        {j \in 1..Len(raw_data.rows) :
                            /\ Complete(raw_data.rows[j].cols)
                            /\ \A k \in 1..(j - 1) :
                                    raw_data.rows[k].cols # raw_data.rows[j].cols},
                        Renamed8)
        /\ DropDuplicates(Dropna(data)) = data

\* A raw table A, B, A of complete rows: the second A is dropped.
C3_Witness ==
    /\ pc = "pipeline"
    /\ lab = 8
    /\ Len(raw_data.rows) = 3
    /\ Complete(raw_data.rows[1].cols)
    /\ raw_data.rows[1].cols = raw_data.rows[3].cols
    /\ raw_data.rows[1].cols # raw_data.rows[2].cols
    /\ Len(data.rows) = 2

\* C4: obtain raises TypeError in case the downloaded dataset is not a pandas
\* DataFrame (and otherwise stores the downloaded test split as the raw data).
C4_TypeErrorWhenNotDataFrame ==
    (pc # "obtain") =>
        IF ~IsInstanceDataFrame(downloaded)
        THEN raised = "TypeError"
        ELSE raw_data = downloaded

\* C7: in infer_dataset of both labs the batches are inferred one after another
\* in loader order: at most one batch is outstanding, and the next batch is not
\* fetched before the predictions of the previous one have been appended.
C7_Sequential ==
    /\ pc = "loop" => loader_pos = Len(predictions)
    /\ pc = "infer" =>
        /\ batch = LoaderBatch(dataset, Len(predictions), batch_size, lab)
        /\ loader_pos - Len(predictions) = Len(batch[1])
        /\ Len(batch[1]) \in 1..batch_size
    /\ pc = "extend" =>
        /\ loader_pos - Len(predictions) = Len(batch_predictions)
        /\ Len(batch_predictions) \in 1..batch_size
    /\ pc \in {"assemble", "done"} =>
        /\ loader_pos = Len(predictions)
        /\ loader_pos = DatasetLen(dataset)

\* The second batch of a lab 8 dataset has been inferred and waits to be appended.
C7_Witness ==
    /\ pc = "extend"
    /\ lab = 8
    /\ batch_size = 2
    /\ Len(predictions) = 2
    /\ loader_pos = 3

----------------------------------------------------------------------------
(* Properties of the evaluator and of the fine-tuning stub *)

\* After each compute call: the call got the file's prediction and target
\* columns, and the entry of the metric is the stored component of its scores.
C5_AfterCall ==
    (pc \in {"metric_loop", "returned"} /\ metric_i > 1) =>
        LET m == metrics[metric_i - 1]
        IN  /\ compute_call.metric = m
            /\ compute_call.predictions =
                    [i \in 1..Len(data_file.rows) |-> data_file.rows[i].predictions]
            /\ compute_call.references =
                    [i \in 1..Len(data_file.rows) |-> data_file.rows[i].target]
            /\ IF m = "rouge"
               THEN /\ "rougeL" \in DOMAIN compute_call.scores
                    /\ evaluation[m] = compute_call.scores["rougeL"]
               ELSE /\ m \in DOMAIN compute_call.scores
                    /\ evaluation[m] = compute_call.scores[m]

C5_Entries ==
    (pc \in {"metric_loop", "returned"}) =>
        DOMAIN evaluation = {metrics[i] : i \in 1..(metric_i - 1)}

C5_Returned == pc = "returned" => metric_i = Len(metrics) + 1

\* An iteration leaves the entries of the other metrics as they are.
C5_OthersKept ==
    (pc = "metric_loop" /\ pc' = "metric_loop" /\ metric_i' = metric_i + 1) =>
        \A k \in DOMAIN evaluation \ {metrics[metric_i]} : evaluation'[k] = evaluation[k]

\* C5: lab 7 TaskEvaluator.run returns a dictionary with exactly one entry per
\* requested metric, keyed by the metric: for rouge the rougeL component of the
\* computed scores, for any other metric the component under the metric's own
\* name; predictions and references are the prediction and target columns of
\* the file at data_path.
C5_Evaluation ==
    /\ [](C5_AfterCall /\ C5_Entries /\ C5_Returned)
    /\ [][C5_OthersKept]_vars

\* run returned after rouge and bleu were computed on a file of two rows, with
\* rouge scores whose rouge1 and rougeL components differ.
C5_Witness ==
    /\ pc = "returned"
    /\ metrics = <<"bleu", "rouge">>
    /\ Len(data_file.rows) = 2
    /\ "rouge1" \in DOMAIN compute_call.scores
    /\ compute_call.scores["rouge1"] # compute_call.scores["rougeL"]
    /\ evaluation["rouge"] = compute_call.scores["rougeL"]

\* C6: SFTPipeline.__init__ stores none of its arguments, and run, called any
\* number of times, returns None and leaves the pipeline, the model and the
\* dataset unchanged.
C6_Stub ==
    (pc = "sft_ready") =>
        /\ DOMAIN sft_obj = {}
        /\ sft_model = "pretrained"
        /\ sft_dataset = sft_args.dataset
        /\ sft_calls > 0 => sft_result = None

\* run has been called more than once on a pipeline made for a dataset of rows.
C6_Witness ==
    /\ pc = "sft_ready"
    /\ sft_calls >= 2
    /\ Len(sft_dataset) >= 1

====
